---------------------------- MODULE Spec2Model ----------------------------
(***************************************************************************)
(* Model of compile.py of xray-rpc: the release-sync pipeline main() and   *)
(* the functions it is built from (download, install_xray and its helpers, *)
(* _get_latest_xray_release, gen_pb2, the import rewrite and the version   *)
(* synchronisation).                                                       *)
(*                                                                         *)
(* Text is modelled as sequences.  A version or tag is a sequence of       *)
(* one-character strings.  Generated code is a sequence of lexical         *)
(* fragments ("from", " ", "\n", "import", "pb2", "xray_rpc.", and module  *)
(* or symbol fragments that contain none of the literals of the            *)
(* substitution pattern), so that matching the pattern fragment by         *)
(* fragment is matching it character by character.                         *)
(***************************************************************************)
EXTENDS Naturals, Sequences, FiniteSets, TLC

VARIABLES
    upstream,             \* tag the releases endpoint currently reports as latest
    installDir,           \* whether the install directory xray_download exists
    zip,                  \* xray-core.zip: NoFile, or the chunks it holds
    srcDirs,              \* versions x for which xray_download/Xray-core-<x> exists
    dst,                  \* xray_rpc: NoDir, or the set of files it holds
    pkgVersion,           \* the package version poetry holds
    pc,                   \* position of main()
    latest_version,       \* main's local latest_version
    current_pypi_version, \* main's local current_pypi_version
    ran,                  \* stages that have run in the current run of main()
    installRet,           \* what install_xray returned in this run (main drops it)
    compileRc,            \* what gen_pb2 returned in this run (main drops it)
    urlTag,               \* tag substituted into the archive URL in this run
    locResp,              \* response the locator got in this run
    readOutcome,          \* how the `poetry version -s` of this run ended
    writes,               \* values of the `poetry version <v>` commands of this run
    dstBefore,            \* dst as the gen_pb2 of this run found it
    lastCall,             \* record of the last direct call of a helper function
    applied               \* how often the import rewrite was applied directly

vars == <<upstream, installDir, zip, srcDirs, dst, pkgVersion, pc, latest_version,
          current_pypi_version, ran, installRet, compileRc, urlTag, locResp,
          readOutcome, writes, dstBefore, lastCall, applied>>

\* ------------------------------------------------------------------ bounds

MaxChunks == 2
MaxLines == 2
MaxApply == 2
MaxTagLen == 3

\* ------------------------------------------------------------------ values

\* A file is absent, or holds a sequence of chunks.
NoFile == [exists |-> FALSE, data |-> <<>>]
File(data) == [exists |-> TRUE, data |-> data]

\* A directory is absent, or holds a set of files.
NoDir == [exists |-> FALSE, files |-> {}]
Dir(files) == [exists |-> TRUE, files |-> files]

\* No tag (distinct from every sequence of characters).
None == <<"none">>
EmptyStr == <<>>

\* The releases the model's upstream publishes: v1.0 and v2.0.
TagA == <<"v", "1", ".", "0">>
TagB == <<"v", "2", ".", "0">>
Tags == {TagA, TagB}

\* Two values of datetime.now().strftime('%Y%m%d%H%M').
Stamp1 == <<"2", "0", "2", "4", "0", "1", "0", "1", "0", "0", "0", "0">>
Stamp2 == <<"2", "0", "2", "4", "0", "1", "0", "1", "0", "0", "0", "1">>
Stamps == {Stamp1, Stamp2}

\* Bodies the archive endpoint can stream: the zip of a tag (two chunks), or
\* a body that is no zip (an error page; download() does not look at the status).
ArchiveBody(tag) == IF tag = TagA THEN <<"A1", "A2">> ELSE <<"B1", "B2">>
ErrorPage == <<"html">>

\* The upstream archive nests everything under <repo>-<version>, the version
\* being the tag without its leading v.
ArchiveRoot(tag) == IF Len(tag) > 0 /\ Head(tag) = "v" THEN Tail(tag) ELSE tag

SeqsUpTo(S, n) == UNION {[1..k -> S] : k \in 0..n}

\* ------------------------------------------------------------ str helpers

\* str.replace('v', '')
ReplaceV(s) == SelectSeq(s, LAMBDA c : c # "v")

\* str.startswith
StartsWith(s, p) == Len(p) <= Len(s) /\ SubSeq(s, 1, Len(p)) = p

IsSpace(c) == c \in {" ", "\n", "\t"}

RECURSIVE LStrip(_)
LStrip(s) == IF s # <<>> /\ IsSpace(Head(s)) THEN LStrip(Tail(s)) ELSE s

RECURSIVE RStrip(_)
RStrip(s) ==
    IF s # <<>> /\ IsSpace(s[Len(s)]) THEN RStrip(SubSeq(s, 1, Len(s) - 1)) ELSE s

\* str.strip
Strip(s) == LStrip(RStrip(s))

\* ---------------------------------------------------------------- download

\* The for loop of download: every chunk received is appended to the file.
RECURSIVE WriteChunks(_, _)
WriteChunks(f, chunks) ==
    IF chunks = <<>> THEN f ELSE WriteChunks(Append(f, Head(chunks)), Tail(chunks))

\* open(target, "ab"): keeps what the file held.
OpenAppend(file) == File(file.data)

\* open(target, "wb"): creates the file, or truncates it.
OpenWb(file) == File(<<>>)

\* download(url, target): the stream of url delivers the first k chunks of body
\* and then either ends (k = Len(body)) or raises; `except Exception` catches
\* whatever the stream raises, so nothing leaves download.
download(file, body, k, raises) ==
    [ret  |-> ~raises,
     raised |-> FALSE,
     file |-> File(WriteChunks(OpenWb(file).data, SubSeq(body, 1, k)))]

\* ------------------------------------------------------------------ XrayFile

xray_src_download_url_fmt(use_cdn, tag) ==
    [host |-> IF use_cdn THEN "download.fastgit.org" ELSE "github.com",
     tag  |-> tag]

\* ---------------------------------------------------------- _unzip_xray_core

IsZipOf(file, tag) == file.exists /\ file.data = ArchiveBody(tag)
IsZip(file) == \E t \in Tags : IsZipOf(file, t)
ZipTag(file) == CHOOSE t \in Tags : IsZipOf(file, t)

\* _unzip_xray_core: False when the archive is absent; zipfile.ZipFile raises
\* BadZipFile on a file that is no complete zip; else every entry is extracted.
_unzip_xray_core(file, dirs) ==
    IF ~file.exists THEN [ret |-> FALSE, raised |-> FALSE, dirs |-> dirs]
    ELSE IF ~IsZip(file) THEN [ret |-> FALSE, raised |-> TRUE, dirs |-> dirs]
    ELSE [ret |-> TRUE, raised |-> FALSE,
          dirs |-> dirs \cup {ArchiveRoot(ZipTag(file))}]

\* ------------------------------------------------------ releases endpoint

\* What a GET of releases/latest can give: a response with a status (its
\* body's tag_name is the latest tag), or a transport error.
Statuses == {200, 404}
Responses(latest) ==
    {[kind |-> "response", status |-> s, tag_name |-> latest] : s \in Statuses}
        \cup {[kind |-> "transport_error", status |-> 0, tag_name |-> latest]}

\* _get_latest_xray_release: client.get is not guarded, so a transport error
\* propagates; a non-200 status gives ""; else the tag_name of the body.
_get_latest_xray_release(resp) ==
    IF resp.kind = "transport_error" THEN [raised |-> TRUE, ret |-> EmptyStr]
    ELSE IF resp.status # 200 THEN [raised |-> FALSE, ret |-> EmptyStr]
    ELSE [raised |-> FALSE, ret |-> resp.tag_name]

\* ------------------------------------------------------ _download_xray_zip

\* What the archive endpoint streams for a URL: a prefix of a body, then the
\* end of the stream or an exception.
Streams(url) ==
    {[body |-> b, k |-> k, raises |-> r] :
        b \in {ArchiveBody(url.tag), ErrorPage}, k \in 0..MaxChunks, r \in BOOLEAN}

StreamOk(st) == st.k <= Len(st.body) /\ (~st.raises => st.k = Len(st.body))

\* _download_xray_zip: its own GET of releases/latest, then download() of the
\* archive of the tag that GET reported; every exception is caught.
_download_xray_zip(file, use_cdn, resp, st) ==
    IF resp.kind = "transport_error" \/ resp.status # 200
    THEN [ret |-> FALSE, file |-> file, urlTag |-> None]
    ELSE LET url == xray_src_download_url_fmt(use_cdn, resp.tag_name)
             d == download(file, st.body, st.k, st.raises)
         IN  [ret |-> d.ret, file |-> d.file, urlTag |-> url.tag]

\* --------------------------------------------------------- _prepare_install

_prepare_install(exists, mkdirOk) ==
    IF exists THEN [ret |-> TRUE, exists |-> TRUE]
    ELSE IF mkdirOk THEN [ret |-> TRUE, exists |-> TRUE]
    ELSE [ret |-> FALSE, exists |-> FALSE]

\* -------------------------------------------------------------- install_xray

install_xray(exists, file, dirs, use_cdn, mkdirOk, resp, st) ==
    LET p == _prepare_install(exists, mkdirOk)
    IN  IF ~p.ret
        THEN [ret |-> FALSE, raised |-> FALSE, exists |-> p.exists, file |-> file,
              dirs |-> dirs, urlTag |-> None]
        ELSE LET d == _download_xray_zip(file, use_cdn, resp, st)
             IN  IF ~d.ret
                 THEN [ret |-> FALSE, raised |-> FALSE, exists |-> p.exists,
                       file |-> d.file, dirs |-> dirs, urlTag |-> d.urlTag]
                 ELSE LET u == _unzip_xray_core(d.file, dirs)
                      IN  [ret |-> u.ret, raised |-> u.raised, exists |-> p.exists,
                           file |-> d.file, dirs |-> u.dirs, urlTag |-> d.urlTag]

\* ------------------------------------------------------------ import rewrite

\* \s of the pattern, and the characters . does not match.
WS == {" ", "\n", "\t"}
NotDot == {"\n"}

\* The pattern from\s+(.*)\s+import (.*)pb2 matched at position i of s.  A match
\* is <<a, b, c, d>>: s[i] is "from", s[i+1..a] the first \s+, s[a+1..b] group 1,
\* s[b+1..c] the second \s+, s[c+1] "import", s[c+2] the space, s[c+3..d] group 2
\* and s[d+1] "pb2".
FirstWs(s, i) == {a \in (i + 1)..Len(s) : \A k \in (i + 1)..a : s[k] \in WS}
Group1(s, a) == {b \in a..Len(s) : \A k \in (a + 1)..b : s[k] \notin NotDot}
SecondWs(s, b) ==
    {c \in (b + 1)..Len(s) :
        /\ \A k \in (b + 1)..c : s[k] \in WS
        /\ c + 2 <= Len(s) /\ s[c + 1] = "import" /\ s[c + 2] = " "}
Group2(s, c) ==
    {d \in (c + 2)..Len(s) :
        /\ \A k \in (c + 3)..d : s[k] \notin NotDot
        /\ d + 1 <= Len(s) /\ s[d + 1] = "pb2"}

MatchesAt(s, i) ==
    IF s[i] # "from" THEN {}
    ELSE UNION {UNION {UNION {{<<a, b, c, d>> : d \in Group2(s, c)}
                                : c \in SecondWs(s, b)}
                        : b \in Group1(s, a)}
                : a \in FirstWs(s, i)}

\* Every quantifier of the pattern is greedy: the backtracking matcher returns
\* the match that is greatest in the order of the quantifiers.
Prefer(m, n) ==
    \/ m[1] > n[1]
    \/ m[1] = n[1] /\ m[2] > n[2]
    \/ m[1] = n[1] /\ m[2] = n[2] /\ m[3] > n[3]
    \/ m[1] = n[1] /\ m[2] = n[2] /\ m[3] = n[3] /\ m[4] >= n[4]

MatchAt(s, i) ==
    CHOOSE m \in MatchesAt(s, i) : \A n \in MatchesAt(s, i) : Prefer(m, n)

\* The template without the package prefix.
ReplacementNoPrefix(g1, g2) ==
    <<"from", " ">> \o g1 \o <<" ", "import", " ">> \o g2 \o <<"pb2">>

\* The template r"from xray_rpc.\1 import \2pb2".
Replacement(g1, g2) ==
    <<"from", " ", "xray_rpc.">> \o g1 \o <<" ", "import", " ">> \o g2 \o <<"pb2">>

\* re.sub(pattern, template, code): the leftmost match from i on is replaced
\* and the scan goes on behind it.
RECURSIVE ReSubFrom(_, _)
ReSubFrom(s, i) ==
    IF i > Len(s) THEN <<>>
    ELSE IF MatchesAt(s, i) = {} THEN <<s[i]>> \o ReSubFrom(s, i + 1)
    ELSE LET m == MatchAt(s, i)
         IN  Replacement(SubSeq(s, m[1] + 1, m[2]), SubSeq(s, m[3] + 3, m[4]))
                 \o ReSubFrom(s, m[4] + 2)

ReSub(code) == ReSubFrom(code, 1)

\* The loop of main over dst_path.rglob("*.py"): each .py file is read,
\* substituted and written back.
RewriteTree(d) ==
    Dir({IF f.ext = "py" THEN [f EXCEPT !.content = ReSub(f.content)] ELSE f :
            f \in d.files})

\* ------------------------------------------------------------------ gen_pb2

\* Files of the tree: name, extension, content, and whether the last compiler
\* process emitted the file.
ExampleLine == <<"from", " ", "foo.bar", " ", "import", " ", "baz_", "pb2", "_grpc">>
ExampleRewritten ==
    <<"from", " ", "xray_rpc.", "foo.bar", " ", "import", " ", "baz_", "pb2", "_grpc">>

Pb2Code ==
    <<"from", " ", "google.protobuf", " ", "import", " ", "descriptor", "\n",
      "from", " ", "common.serial", " ", "import", " ", "typed_message_", "pb2",
      " ", "as", " ", "common_dot_typed__message__", "pb2", "\n">>
GrpcCode ==
    <<"import", " ", "grpc", "\n",
      "from", " ", "app.stats.command", " ", "import", " ", "command_", "pb2",
      " ", "as", " ", "app_dot_command__", "pb2", "\n">>

Emitted ==
    {[name |-> "command_pb2.py", ext |-> "py", content |-> Pb2Code, fresh |-> TRUE],
     [name |-> "command_pb2_grpc.py", ext |-> "py", content |-> GrpcCode,
      fresh |-> TRUE]}

\* What the compiler process does: exit 0 with every binding emitted, or a
\* non-zero exit (os.system gives the wait status) with any part of them.
CompilerRuns ==
    {[rc |-> 0, files |-> Emitted]}
        \cup {[rc |-> 256, files |-> F] : F \in SUBSET Emitted}

\* Files left from before this compile: a binding of an older release, already
\* rewritten, and a file that is no Python source.
StalePy ==
    [name |-> "old_pb2_grpc.py", ext |-> "py",
     content |-> <<"from", " ", "xray_rpc.", "old", " ", "import", " ", "old_",
                   "pb2", "\n">>,
     fresh |-> FALSE]
StaleTxt ==
    [name |-> "sentinel.txt", ext |-> "txt", content |-> <<"sentinel">>,
     fresh |-> FALSE]

Age(files) == {[f EXCEPT !.fresh = FALSE] : f \in files}

\* The compiler writes its files into the directory, replacing same-named ones.
EmitInto(files, out) ==
    {f \in files : \A g \in out : g.name # f.name} \cup out

\* shutil.rmtree(path=dst, ignore_errors=True)
Rmtree(d) == NoDir

\* dst.mkdir(mode=0o755), of an absent directory
Mkdir(d) == Dir({})

\* mkdir(exist_ok=True) in place of rmtree + mkdir: the old files stay.
GenPb2KeepsTree(d, run) ==
    [ret |-> run.rc, dst |-> Dir(EmitInto(Age(d.files), run.files))]

\* gen_pb2(src, dst): dst removed and recreated, then one compiler process.
gen_pb2(d, run) ==
    [ret |-> run.rc, dst |-> Dir(EmitInto(Age(Mkdir(Rmtree(d)).files), run.files))]

\* ------------------------------------------------------- version synchronisation

Dot == <<".">>

\* The value main hands to `poetry version`.
NewVersion(current, latest, stamp) ==
    IF StartsWith(current, ReplaceV(latest))
    THEN ReplaceV(latest) \o Dot \o stamp
    ELSE ReplaceV(latest)

\* --------------------------------------------------------------------- main

Stopped == {"idle", "done", "raised"}
NoResponse == [kind |-> "none", status |-> 0, tag_name |-> EmptyStr]
NoCall == [op |-> "none", ret |-> FALSE, raised |-> FALSE, existed |-> FALSE,
           before |-> {}, after |-> {}]

\* The name main expects the expanded source directory to have.
SrcName(latest) == ReplaceV(latest)

\* The test left out: main goes on to compile whatever the directory.
SrcAlwaysExists(dirs, latest) == TRUE

\* src_path.exists()
SrcExists(dirs, latest) == SrcName(latest) \in dirs

\* main() is called.
Start ==
    /\ pc \in Stopped
    /\ pc' = "install"
    /\ latest_version' = EmptyStr
    /\ current_pypi_version' = EmptyStr
    /\ ran' = {}
    /\ installRet' = TRUE
    /\ compileRc' = 0
    /\ urlTag' = None
    /\ locResp' = NoResponse
    /\ readOutcome' = "none"
    /\ writes' = <<>>
    /\ dstBefore' = NoDir
    /\ lastCall' = NoCall
    /\ UNCHANGED <<upstream, installDir, zip, srcDirs, dst, pkgVersion, applied>>

\* install_xray(install_path=path, use_cdn=True); its result is dropped.  An
\* exception of _unzip_xray_core ends main.
Install ==
    /\ pc = "install"
    /\ \E mkdirOk \in BOOLEAN, resp \in Responses(upstream) :
       \E st \in Streams(xray_src_download_url_fmt(TRUE, resp.tag_name)) :
          /\ StreamOk(st)
          /\ LET r == install_xray(installDir, zip, srcDirs, TRUE, mkdirOk, resp, st)
             IN  /\ installDir' = r.exists
                 /\ zip' = r.file
                 /\ srcDirs' = r.dirs
                 /\ urlTag' = r.urlTag
                 /\ installRet' = r.ret
                 /\ pc' = IF r.raised THEN "raised" ELSE "locate"
    /\ ran' = ran \cup {"install"}
    /\ UNCHANGED <<upstream, dst, pkgVersion, latest_version, current_pypi_version,
                   compileRc, locResp, readOutcome, writes,
                   dstBefore, lastCall, applied>>

\* latest_version = _get_latest_xray_release()
Locate ==
    /\ pc = "locate"
    /\ \E resp \in Responses(upstream) :
          LET r == _get_latest_xray_release(resp)
          IN  /\ locResp' = IF resp.kind = "response" /\ resp.status = 200 THEN resp
                             ELSE [resp EXCEPT !.tag_name = EmptyStr]
              /\ latest_version' = r.ret
              /\ pc' = IF r.raised THEN "raised" ELSE "check"
    /\ ran' = ran \cup {"locate"}
    /\ UNCHANGED <<upstream, installDir, zip, srcDirs, dst, pkgVersion,
                   current_pypi_version, installRet, compileRc, urlTag, readOutcome,
                   writes, dstBefore, lastCall, applied>>

\* if src_path.exists(): ... else: logger.error(...)
Check ==
    /\ pc = "check"
    /\ pc' = IF SrcExists(srcDirs, latest_version) THEN "compile" ELSE "done"
    /\ UNCHANGED <<upstream, installDir, zip, srcDirs, dst, pkgVersion, latest_version,
                   current_pypi_version, ran, installRet, compileRc, urlTag, locResp,
                   readOutcome, writes, dstBefore, lastCall, applied>>

\* gen_pb2(src=src_path, dst=dst_path); its result is dropped.
Compile ==
    /\ pc = "compile"
    /\ \E run \in CompilerRuns :
          LET r == gen_pb2(dst, run)
          IN  /\ dst' = r.dst
              /\ compileRc' = r.ret
    /\ dstBefore' = dst
    /\ ran' = ran \cup {"compile"}
    /\ pc' = "rewrite"
    /\ UNCHANGED <<upstream, installDir, zip, srcDirs, pkgVersion, latest_version,
                   current_pypi_version, installRet, urlTag, locResp, readOutcome,
                   writes, lastCall, applied>>

\* for py in dst_path.rglob("*.py"): ... re.sub ...
Rewrite ==
    /\ pc = "rewrite"
    /\ dst' = RewriteTree(dst)
    /\ ran' = ran \cup {"rewrite"}
    /\ pc' = "vread"
    /\ UNCHANGED <<upstream, installDir, zip, srcDirs, pkgVersion, latest_version,
                   current_pypi_version, installRet, compileRc, urlTag, locResp,
                   readOutcome, writes, dstBefore, lastCall, applied>>

\* How `poetry version -s` can end, and what it then printed.
ReadOutcomes == {"ok", "nonzero", "timeout"}
Stdout(outcome, version) == IF outcome = "ok" THEN version \o <<"\n">> ELSE <<>>

\* subprocess.run(["poetry", "version", "-s"], timeout=2, ...) without check=True:
\* only the timeout raises; current_pypi_version = p.stdout.strip()
VersionRead ==
    /\ pc = "vread"
    /\ \E outcome \in ReadOutcomes :
          /\ readOutcome' = outcome
          /\ IF outcome = "timeout"
             THEN pc' = "raised" /\ UNCHANGED current_pypi_version
             ELSE /\ pc' = "vwrite"
                  /\ current_pypi_version' = Strip(Stdout(outcome, pkgVersion))
    /\ ran' = ran \cup {"vread"}
    /\ UNCHANGED <<upstream, installDir, zip, srcDirs, dst, pkgVersion, latest_version,
                   installRet, compileRc, urlTag, locResp, writes, dstBefore,
                   lastCall, applied>>

\* os.system(f"poetry version {...}") in either branch; its result is dropped.
VersionWrite ==
    /\ pc = "vwrite"
    /\ \E stamp \in Stamps, wrote \in BOOLEAN :
          LET v == NewVersion(current_pypi_version, latest_version, stamp)
          IN  /\ writes' = Append(writes, v)
              /\ pkgVersion' = IF wrote THEN v ELSE pkgVersion
    /\ ran' = ran \cup {"vwrite"}
    /\ pc' = "done"
    /\ UNCHANGED <<upstream, installDir, zip, srcDirs, dst, latest_version,
                   current_pypi_version, installRet, compileRc, urlTag, locResp,
                   readOutcome, dstBefore, lastCall, applied>>

\* Upstream publishes (or withdraws) a release: the latest tag changes.
Release ==
    /\ \E t \in Tags \ {upstream} : upstream' = t
    /\ UNCHANGED <<installDir, zip, srcDirs, dst, pkgVersion, pc, latest_version,
                   current_pypi_version, ran, installRet, compileRc, urlTag, locResp,
                   readOutcome, writes, dstBefore, lastCall, applied>>

\* _unzip_xray_core called on its own, between runs of main.
CallUnzip ==
    /\ pc \in Stopped
    /\ LET r == _unzip_xray_core(zip, srcDirs)
       IN  /\ srcDirs' = r.dirs
           /\ lastCall' = [op |-> "unzip", ret |-> r.ret, raised |-> r.raised,
                           existed |-> zip.exists, before |-> srcDirs,
                           after |-> r.dirs]
    /\ UNCHANGED <<upstream, installDir, zip, dst, pkgVersion, pc, latest_version,
                   current_pypi_version, ran, installRet, compileRc, urlTag, locResp,
                   readOutcome, writes, dstBefore, applied>>

InitVersions == {<<"1", ".", "0">>, <<"0", ".", "9">>}
InitTrees == {NoDir, Dir({StalePy}), Dir({StalePy, StaleTxt})}

Init ==
    /\ upstream \in Tags
    /\ installDir = FALSE
    /\ zip = NoFile
    /\ srcDirs = {}
    /\ dst \in InitTrees
    /\ pkgVersion \in InitVersions
    /\ pc = "idle"
    /\ latest_version = EmptyStr
    /\ current_pypi_version = EmptyStr
    /\ ran = {}
    /\ installRet = TRUE
    /\ compileRc = 0
    /\ urlTag = None
    /\ locResp = NoResponse
    /\ readOutcome = "none"
    /\ writes = <<>>
    /\ dstBefore = NoDir
    /\ lastCall = NoCall
    /\ applied = 0

Next ==
    \/ Start
    \/ Install
    \/ Locate
    \/ Check
    \/ Compile
    \/ Rewrite
    \/ VersionRead
    \/ VersionWrite
    \/ Release
    \/ CallUnzip

Spec == Init /\ [][Next]_vars

\* ------------------------------------------------- download called on its own

\* Chunks of the bodies download is called with, and what the target holds
\* before the call.
CallChunks == {"A1", "A2"}
CallBodies == SeqsUpTo(CallChunks, MaxChunks)

CallDownload ==
    /\ \E body \in CallBodies, raises \in BOOLEAN :
       \E k \in 0..Len(body) :
          /\ ~raises => k = Len(body)
          /\ LET r == download(zip, body, k, raises)
             IN  /\ zip' = r.file
                 /\ lastCall' = [op |-> "download", ret |-> r.ret, raised |-> r.raised,
                                 existed |-> zip.exists, before |-> zip.data,
                                 after |-> r.file.data, body |-> body, k |-> k,
                                 raises |-> raises]
    /\ UNCHANGED <<upstream, installDir, srcDirs, dst, pkgVersion, pc, latest_version,
                   current_pypi_version, ran, installRet, compileRc, urlTag, locResp,
                   readOutcome, writes, dstBefore, applied>>

InitDownload ==
    /\ zip \in {NoFile} \cup {File(d) : d \in CallBodies}
    /\ upstream = TagA /\ installDir = TRUE /\ srcDirs = {} /\ dst = NoDir
    /\ pkgVersion = <<"1", ".", "0">> /\ pc = "idle"
    /\ latest_version = EmptyStr /\ current_pypi_version = EmptyStr /\ ran = {}
    /\ installRet = TRUE /\ compileRc = 0 /\ urlTag = None /\ locResp = NoResponse
    /\ readOutcome = "none" /\ writes = <<>> /\ dstBefore = NoDir
    /\ lastCall = NoCall /\ applied = 0

SpecDownload == InitDownload /\ [][CallDownload]_vars

\* ---------------------------------------- the import rewrite applied on its own

NL == <<"\n">>

LineTemplates ==
    {ExampleLine,
     ExampleRewritten,
     <<"import", " ", "grpc">>,
     <<"from", " ", "google.protobuf", " ", "import", " ", "descriptor">>,
     <<"from", " ", "a", " ", "import", " ", "b_", "pb2", " ", "as", " ", "c__", "pb2">>,
     <<"from", "\t", "x", " ", " ", "import", " ", "y_", "pb2">>}

RECURSIVE JoinLines(_)
JoinLines(ls) == IF ls = <<>> THEN <<>> ELSE Head(ls) \o NL \o JoinLines(Tail(ls))

Codes == {JoinLines(ls) : ls \in SeqsUpTo(LineTemplates, MaxLines)}

SourceFile(code) == [name |-> "f.py", ext |-> "py", content |-> code, fresh |-> FALSE]

CallRewrite ==
    /\ applied < MaxApply
    /\ dst' = RewriteTree(dst)
    /\ applied' = applied + 1
    /\ lastCall' = [op |-> "rewrite", ret |-> TRUE, raised |-> FALSE, existed |-> TRUE,
                    before |-> dst, after |-> RewriteTree(dst)]
    /\ UNCHANGED <<upstream, installDir, zip, srcDirs, pkgVersion, pc, latest_version,
                   current_pypi_version, ran, installRet, compileRc, urlTag, locResp,
                   readOutcome, writes, dstBefore>>

InitRewrite ==
    /\ dst \in {Dir({SourceFile(c)}) : c \in Codes}
    /\ upstream = TagA /\ installDir = TRUE /\ zip = NoFile /\ srcDirs = {}
    /\ pkgVersion = <<"1", ".", "0">> /\ pc = "idle"
    /\ latest_version = EmptyStr /\ current_pypi_version = EmptyStr /\ ran = {}
    /\ installRet = TRUE /\ compileRc = 0 /\ urlTag = None /\ locResp = NoResponse
    /\ readOutcome = "none" /\ writes = <<>> /\ dstBefore = NoDir
    /\ lastCall = NoCall /\ applied = 0

SpecRewrite == InitRewrite /\ [][CallRewrite]_vars

\* ------------------------- version synchronisation over all tags and versions

\* Tags v1..., and versions 1..., of up to MaxTagLen further characters.
TagChars == {"v", "1", "."}
TagStrings == {<<"v", "1">> \o t : t \in SeqsUpTo(TagChars, MaxTagLen)}
VersionStrings == {<<"1">> \o t : t \in SeqsUpTo({"1", "."}, MaxTagLen)}

\* main has reached the version stage with some tag and some package version.
InitVersion ==
    /\ latest_version \in TagStrings
    /\ pkgVersion \in VersionStrings
    /\ pc = "vread"
    /\ ran = {"install", "locate", "compile", "rewrite"}
    /\ srcDirs = {SrcName(latest_version)}
    /\ upstream = TagA /\ installDir = TRUE /\ zip = NoFile /\ dst = Dir({})
    /\ current_pypi_version = EmptyStr
    /\ installRet = TRUE /\ compileRc = 0 /\ urlTag = None /\ locResp = NoResponse
    /\ readOutcome = "none" /\ writes = <<>> /\ dstBefore = NoDir
    /\ lastCall = NoCall /\ applied = 0

NextVersion == VersionRead \/ VersionWrite

SpecVersion == InitVersion /\ [][NextVersion]_vars

\* ------------------------------------------------------------------ claims

Later(stages) == ran \cap stages

\* C1: a failed stage of main() aborts the later ones: after install_xray
\* returned False no compile, import rewrite or version write runs; after the
\* locator returned "" none of them runs either; and after a non-zero exit of
\* the compiler no import rewrite and no version write runs.
C1_FailedStageAborts ==
    /\ ~installRet => Later({"compile", "rewrite", "vwrite"}) = {}
    /\ ("locate" \in ran /\ latest_version = EmptyStr)
           => Later({"compile", "rewrite", "vwrite"}) = {}
    /\ compileRc # 0 => Later({"rewrite", "vwrite"}) = {}

\* C2: within one run the tag substituted into the archive URL is the tag
\* that names the expected source directory and enters the version comparison.
C2_OneTagPerRun ==
    (urlTag # None /\ latest_version # EmptyStr) => urlTag = latest_version

\* C3: the locator returns the tag_name of a 200 response, and "" without
\* raising for a non-200 response and for a transport error.
C3_LocatorNeverRaises ==
    /\ (locResp.kind = "response" /\ locResp.status = 200)
           => latest_version = locResp.tag_name
    /\ (locResp.kind = "response" /\ locResp.status # 200)
           => latest_version = EmptyStr /\ pc # "raised"
    /\ locResp.kind = "transport_error"
           => latest_version = EmptyStr /\ pc # "raised"

\* C4: download returns True exactly when the stream ended without an
\* exception, and the target then holds the whole body; when the stream raised
\* after k chunks it returns False, does not raise, and the target exists and
\* holds exactly those k chunks, whatever it held before.
C4_DownloadResult ==
    lastCall.op = "download" =>
        /\ ~lastCall.raised
        /\ lastCall.ret = ~lastCall.raises
        /\ zip.exists
        /\ zip.data = lastCall.after
        /\ lastCall.ret => zip.data = lastCall.body
        /\ lastCall.raises => zip.data = SubSeq(lastCall.body, 1, lastCall.k)

C4_Witness ==
    /\ lastCall.op = "download"
    /\ lastCall.raises /\ ~lastCall.ret
    /\ lastCall.k = 1 /\ Len(lastCall.body) = 2
    /\ lastCall.existed /\ Len(lastCall.before) = 2
    /\ lastCall.before # lastCall.body

C6_RewriteIdempotent ==
    lastCall.op = "rewrite" =>
        /\ (applied = 1 /\ lastCall.before = Dir({SourceFile(ExampleLine \o NL)}))
               => lastCall.after = Dir({SourceFile(ExampleRewritten \o NL)})
        /\ applied >= 2 => lastCall.after = lastCall.before

\* The tag with its leading v stripped and nothing else changed.
LeadingVStripped(tag) == IF tag # <<>> /\ Head(tag) = "v" THEN Tail(tag) ELSE tag

\* C7: the version write is `<numeric>.<timestamp>` when the current version
\* starts with numeric, and numeric otherwise, numeric being the tag with its
\* leading v stripped and nothing else changed.
C7_VersionWritten ==
    (pc = "done" /\ readOutcome = "ok") =>
        LET numeric == LeadingVStripped(latest_version)
        IN  /\ Len(writes) = 1
            /\ IF StartsWith(current_pypi_version, numeric)
               THEN \E stamp \in Stamps : writes[1] = numeric \o Dot \o stamp
               ELSE writes[1] = numeric

\* C8: when the read of the current version times out or exits non-zero, no
\* version write is issued in that run.
C8_FailedReadStopsWrite ==
    readOutcome \in {"timeout", "nonzero"} => writes = <<>> /\ "vwrite" \notin ran

\* A direct call of _unzip_xray_core on an absent archive.
UnzipOfAbsentArchive ==
    (lastCall.op = "unzip" /\ ~lastCall.existed) =>
        ~lastCall.ret /\ ~lastCall.raised /\ lastCall.after = lastCall.before

\* The step of main that finds the expected source directory absent.
SourceDirAbsent ==
    (pc = "check" /\ pc' # pc /\ SrcName(latest_version) \notin srcDirs) =>
        /\ pc' = "done"
        /\ UNCHANGED <<dst, ran, writes, readOutcome, pkgVersion, srcDirs, zip>>

\* A run that ended without compiling ran nothing after the locator.
StoppedAfterLocate ==
    (pc = "done" /\ "compile" \notin ran) =>
        /\ ran = {"install", "locate"}
        /\ writes = <<>> /\ readOutcome = "none"

\* C9: _unzip_xray_core on an absent archive returns False, raises nothing and
\* extracts nothing; and main, finding the expected source directory absent,
\* ends normally without compile, rewrite, version read or version write,
\* leaving the bindings directory as it was.
C9_MissingPrecondition ==
    /\ [](UnzipOfAbsentArchive /\ StoppedAfterLocate)
    /\ [][SourceDirAbsent]_vars

C9_Witness ==
    /\ pc = "done"
    /\ ran = {"install", "locate"}
    /\ latest_version # EmptyStr
    /\ SrcName(latest_version) \notin srcDirs
    /\ dst.exists /\ StalePy \in dst.files
    /\ lastCall.op = "unzip" /\ ~lastCall.existed /\ ~lastCall.ret

\* The lines of a text, and the pb2 import lines of a tree with the number of
\* xray_rpc. prefixes each carries on its module path.
RECURSIVE SplitLines(_, _)
SplitLines(s, cur) ==
    IF s = <<>> THEN (IF cur = <<>> THEN <<>> ELSE <<cur>>)
    ELSE IF Head(s) = "\n" THEN <<cur>> \o SplitLines(Tail(s), <<>>)
    ELSE SplitLines(Tail(s), Append(cur, Head(s)))

IsPb2Import(line) ==
    /\ Len(line) >= 1 /\ line[1] = "from"
    /\ \E i \in 1..Len(line) : \E j \in (i + 1)..Len(line) :
          line[i] = "import" /\ line[j] = "pb2"

RECURSIVE PrefixesFrom(_, _)
PrefixesFrom(line, i) ==
    IF i <= Len(line) /\ line[i] = "xray_rpc." THEN 1 + PrefixesFrom(line, i + 1) ELSE 0

Pb2ImportLines(d) ==
    {l \in UNION {{SplitLines(f.content, <<>>)[n] :
                     n \in 1..Len(SplitLines(f.content, <<>>))} : f \in d.files} :
        IsPb2Import(l)}

\* C10: in every file of the bindings directory every pb2 import line carries
\* the xray_rpc. prefix at most once, and exactly once when the rewrite of the
\* current run has run, however many runs came before.
C10_PrefixedOnce ==
    \A l \in Pb2ImportLines(dst) :
        /\ PrefixesFrom(l, 3) <= 1
        /\ "rewrite" \in ran => PrefixesFrom(l, 3) = 1

\* A second run that reached the version write after an earlier one had set
\* the package version to 2.0.
C10_Witness ==
    /\ pc = "done" /\ "rewrite" \in ran
    /\ pkgVersion = <<"2", ".", "0", ".">> \o Stamp1
    /\ Cardinality(Pb2ImportLines(dst)) = 2
    /\ \A l \in Pb2ImportLines(dst) : PrefixesFrom(l, 3) = 1

=============================================================================
